---- MODULE Spec2Model ----
(***************************************************************************)
(* Order ledger and payment verification of the ScreenRent backend         *)
(* (src/server.js, the last server definition in the file, lines 418-709). *)
(*                                                                         *)
(* JavaScript values are records [t, s, n, f]:                             *)
(*   t  the type tag: "undefined", "string", "number", "NaN"               *)
(*   s  the characters of a string (a sequence of one-character strings)   *)
(*   n  the integer part (floor) of a number                               *)
(*   f  the thousandths of a number, 0..999, so the value is n + f/1000    *)
(* Unused fields hold <<>> or 0, so that all values are comparable.        *)
(***************************************************************************)
EXTENDS Integers, Sequences, FiniteSets, TLC

VARIABLES
    RAZORPAY_KEY_ID,      \* process.env.RAZORPAY_KEY_ID, read once at start
    RAZORPAY_KEY_SECRET,  \* process.env.RAZORPAY_KEY_SECRET, read once at start
    ordersStore,          \* the Map: order id (characters) -> stored order
    pending,              \* create-order handlers suspended at the gateway call,
                          \* by the connection their request came in on
    minted,               \* number of orders the gateway has created so far
    last,                 \* the latest handler step: its request and its response
    prevStore             \* ordersStore as it was before the latest handler step

vars == <<RAZORPAY_KEY_ID, RAZORPAY_KEY_SECRET, ordersStore, pending, minted,
          last, prevStore>>

----------------------------------------------------------------------------
(* Bounds of the model *)

MaxOrders == 2          \* orders the gateway mints in one run
MaxInflight == 2        \* connections with a create-order request suspended
                        \* at the gateway at once
CreateMaxOrders == 1    \* the same two bounds for CreateSpec, whose requests
CreateMaxInflight == 1  \* carry many different amounts

----------------------------------------------------------------------------
(* JavaScript values *)

Undefined == [t |-> "undefined", s |-> <<>>, n |-> 0, f |-> 0]
NaN == [t |-> "NaN", s |-> <<>>, n |-> 0, f |-> 0]
Str(chars) == [t |-> "string", s |-> chars, n |-> 0, f |-> 0]
Num(whole, thousandths) ==
    [t |-> "number", s |-> <<>>, n |-> whole, f |-> thousandths]
Whole(k) == Num(k, 0)

DigitChars == <<"0", "1", "2", "3", "4", "5", "6", "7", "8", "9">>

IsDigit(c) == \E i \in 1..10 : DigitChars[i] = c

DigitValue(c) == (CHOOSE i \in 1..10 : DigitChars[i] = c) - 1

IsSpace(c) == c = " "

\* String(n) for a natural number: its decimal digits.
RECURSIVE NatToChars(_)
NatToChars(k) ==
    IF k < 10 THEN <<DigitChars[k + 1]>>
    ELSE NatToChars(k \div 10) \o <<DigitChars[(k % 10) + 1]>>

\* String.prototype.trim: leading and trailing white space removed.
RECURSIVE TrimLeft(_)
TrimLeft(chars) ==
    IF chars # <<>> /\ IsSpace(Head(chars)) THEN TrimLeft(Tail(chars)) ELSE chars

RECURSIVE TrimRight(_)
TrimRight(chars) ==
    IF chars # <<>> /\ IsSpace(chars[Len(chars)])
    THEN TrimRight(SubSeq(chars, 1, Len(chars) - 1))
    ELSE chars

Trim(chars) == TrimRight(TrimLeft(chars))

\* The value of a string of decimal digits.
RECURSIVE DigitsValue(_)
DigitsValue(chars) ==
    IF chars = <<>> THEN 0
    ELSE 10 * DigitsValue(SubSeq(chars, 1, Len(chars) - 1))
         + DigitValue(chars[Len(chars)])

\* ToNumber, the coercion `<` and `*` apply to an operand: a number is itself,
\* undefined is NaN, a string is trimmed and read as a decimal integer (empty
\* is 0) and is NaN when it holds anything else.  The strings of the model
\* hold no ".", "e", sign or radix prefix, so digits are the only numerals.
ToNumber(v) ==
    CASE v.t = "number" -> v
      [] v.t = "string" ->
            LET body == Trim(v.s)
            IN  IF \A i \in 1..Len(body) : IsDigit(body[i])
                THEN Whole(DigitsValue(body))
                ELSE NaN
      [] OTHER -> NaN

\* `!v`: undefined, NaN, 0 and the empty string are falsy.
Falsy(v) ==
    \/ v.t \in {"undefined", "NaN"}
    \/ v.t = "string" /\ v.s = <<>>
    \/ v.t = "number" /\ v.n = 0 /\ v.f = 0

Truthy(v) == ~Falsy(v)

\* `a || b`
Or(a, b) == IF Truthy(a) THEN a ELSE b

\* `v < k` for an integer k >= 0: false when v coerces to NaN.  The value is
\* n + f/1000 with 0 <= f < 1000, so it is below k exactly when n < k.
LessThan(v, k) ==
    LET x == ToNumber(v) IN x.t = "number" /\ x.n < k

----------------------------------------------------------------------------
(* crypto.createHmac(sha256, key).update(body).digest(hex)                  *)
(* SHA-256 is stood in for by a 16-bit polynomial hash with the same shape: *)
(* a deterministic keyed digest H(key^opad || H(key^ipad || message)),      *)
(* rendered in lowercase hexadecimal.                                       *)

AsciiPrintable ==
    <<" ", "!", "dquote", "#", "$", "%", "&", "'", "(", ")", "*", "+", ",", "-",
      ".", "/", "0", "1", "2", "3", "4", "5", "6", "7", "8", "9", ":", ";",
      "<", "=", ">", "?", "@", "A", "B", "C", "D", "E", "F", "G", "H", "I",
      "J", "K", "L", "M", "N", "O", "P", "Q", "R", "S", "T", "U", "V", "W",
      "X", "Y", "Z", "[", "backslash", "]", "^", "_", "backquote", "a", "b", "c", "d", "e",
      "f", "g", "h", "i", "j", "k", "l", "m", "n", "o", "p", "q", "r", "s",
      "t", "u", "v", "w", "x", "y", "z", "{", "|", "}", "~">>

\* The UTF-8 byte of a printable ASCII character (codes 32..126; the three
\* quoting characters are named, not written, and occur in no model string).
AsciiCodes ==
    [c \in {AsciiPrintable[i] : i \in 1..Len(AsciiPrintable)} |->
        31 + (CHOOSE i \in 1..Len(AsciiPrintable) : AsciiPrintable[i] = c)]

CharCode(c) == AsciiCodes[c]

Utf8(chars) == [i \in 1..Len(chars) |-> CharCode(chars[i])]

RECURSIVE HashBytes(_, _)
HashBytes(h, bytes) ==
    IF bytes = <<>> THEN h
    ELSE HashBytes((h * 31 + Head(bytes)) % 65536, Tail(bytes))

\* The key bytes with the HMAC pad added (the real pad is an xor).
KeyPad(key, pad) == [i \in 1..Len(key) |-> (CharCode(key[i]) + pad) % 256]

HmacDigest(key, message) ==
    LET inner == HashBytes(7, KeyPad(key, 54) \o Utf8(message))
    IN  HashBytes(7, KeyPad(key, 92) \o <<inner \div 256, inner % 256>>)

HexDigits == <<"0", "1", "2", "3", "4", "5", "6", "7", "8", "9",
               "a", "b", "c", "d", "e", "f">>

\* digest(hex): two lowercase hexadecimal digits per byte.
ToHex(digest) ==
    <<HexDigits[(digest \div 4096) + 1], HexDigits[((digest \div 256) % 16) + 1],
      HexDigits[((digest \div 16) % 16) + 1], HexDigits[(digest % 16) + 1]>>

HmacSha256Hex(key, message) == ToHex(HmacDigest(key, message))

----------------------------------------------------------------------------
(* Configuration and the shapes of requests, responses and stored orders *)

\* A client constructed as soon as the key id is set.
razorpay_KeyIdOnly == Truthy(RAZORPAY_KEY_ID)

\* `razorpay` is constructed only when both credentials are set.
razorpay == Truthy(RAZORPAY_KEY_ID) /\ Truthy(RAZORPAY_KEY_SECRET)

Chars_INR == <<"I", "N", "R">>

\* Date.now(): the clock is read as one instant, the runs of the model being
\* short; no handler compares two readings.
DateNow == 0

\* new Date().toISOString()
IsoString(t) == Str(<<"T">> \o NatToChars(t))

\* req.body: a field the request does not carry is undefined.
CreateBody(amount, currency, receipt) ==
    [amount |-> amount, currency |-> currency, receipt |-> receipt,
     order_id |-> Undefined, payment_id |-> Undefined, signature |-> Undefined]

VerifyBody(order_id, payment_id, signature) ==
    [amount |-> Undefined, currency |-> Undefined, receipt |-> Undefined,
     order_id |-> order_id, payment_id |-> payment_id, signature |-> signature]

NoBody == CreateBody(Undefined, Undefined, Undefined)

\* The order descriptor the gateway returns.
NoOrder ==
    [id |-> Undefined, amount |-> Undefined, currency |-> Undefined,
     receipt |-> Undefined]

EmptyStore == [id \in {} |-> Undefined]

\* res.status(status).json({success, message, ...}); success is status = 200.
\* A field the response does not carry is undefined (orders: no items).
Response(status, message) ==
    [status |-> status, message |-> message, order_id |-> Undefined,
     payment_id |-> Undefined, verified_at |-> Undefined, order |-> NoOrder,
     count |-> Undefined, orders |-> {}]

NoResponse == Response(0, "")

\* The options of a request that never reached razorpay.orders.create.
NoOptions ==
    [amount |-> Undefined, currency |-> Undefined, receipt |-> Undefined,
     payment_capture |-> Undefined]

\* One handler step: the request, the response (NoResponse while the handler
\* is suspended), the options the handler has passed to the gateway
\* (NoOptions when it has not called it) and whether it computed the HMAC.
Step(op, req, res, sent, hmac) ==
    [op |-> op, req |-> req, res |-> res, sent |-> sent, hmac |-> hmac]

\* Map.prototype.set
MapSet(store, id, value) ==
    [k \in DOMAIN store \cup {id} |-> IF k = id THEN value ELSE store[k]]

\* No handler is suspended.
NoneSuspended == [socket \in {} |-> NoBody]

\* The connection a new request comes in on: the first that is not waiting
\* for an answer.
FreeSocket(maxInflight) ==
    CHOOSE socket \in 1..maxInflight :
        /\ socket \notin DOMAIN pending
        /\ \A lower \in 1..(socket - 1) : lower \in DOMAIN pending

\* The suspended handlers once the one of a connection has run to its end.
Resumed(socket) == [k \in DOMAIN pending \ {socket} |-> pending[k]]

----------------------------------------------------------------------------
(* POST /api/create-order *)

MinimumAmount == 1    \* `amount < 1`, in rupees
PaisePerUnit == 100   \* `amount * 100`

\* The check without its minimum.
AmountInvalid_NoMinimum(amount) == Falsy(amount)

\* `!amount || amount < 1`
AmountInvalid(amount) == Falsy(amount) \/ LessThan(amount, MinimumAmount)

\* Math.round(amount * 100): the multiplication coerces its operand, NaN
\* stays NaN, and n + f/1000 times 100 rounds to 100 n + floor(f/10 + 1/2).
\* (A tie, f = 5 mod 10, depends on the binary representation of the
\* product; the request amounts of the model avoid ties.)
\* Math.floor in the place of Math.round.
MathFloorTimes100(amount) ==
    LET x == ToNumber(amount)
    IN  IF x.t = "number" THEN Whole(x.n * PaisePerUnit + (x.f \div 10)) ELSE NaN

MathRoundTimes100(amount) ==
    LET x == ToNumber(amount)
    IN  IF x.t = "number"
        THEN Whole(x.n * PaisePerUnit + ((x.f + 5) \div 10))
        ELSE NaN

\* `rec_${Date.now()}`
GeneratedReceipt(t) == Str(<<"r", "e", "c", "_">> \o NatToChars(t))

\* The options with the currency passed on as it came.
CreateOptions_NoDefaultCurrency(body, t) ==
    [amount |-> MathRoundTimes100(body.amount),
     currency |-> body.currency,
     receipt |-> Or(body.receipt, GeneratedReceipt(t)),
     payment_capture |-> Whole(1)]

CreateOptions(body, t) ==
    [amount |-> MathRoundTimes100(body.amount),
     currency |-> Or(body.currency, Str(Chars_INR)),
     receipt |-> Or(body.receipt, GeneratedReceipt(t)),
     payment_capture |-> Whole(1)]

\* The value stored under order.id; payment_id and verified_at are absent
\* (undefined) until a verification sets them.
StoredOrder(options, t) ==
    [amount |-> options.amount, currency |-> options.currency,
     receipt |-> options.receipt, status |-> "created",
     created_at |-> IsoString(t), payment_id |-> Undefined,
     verified_at |-> Undefined]

\* A gateway that gives every order the same id.
GatewayOrderId_Reused(k) == <<"o", "1">>

\* The id of the k-th order the gateway creates: ids are unique per account.
GatewayOrderId(k) == <<"o">> \o NatToChars(k)

GatewayOrder(id, options) ==
    [id |-> Str(id), amount |-> options.amount, currency |-> options.currency,
     receipt |-> options.receipt]

\* A handler suspended at its gateway call: its request, the options it
\* passed and the number of times it has called razorpay.orders.create.
Suspended(body, options) == [req |-> body, options |-> options, calls |-> 1]

\* The handler up to its suspension at `await razorpay.orders.create(options)`.
\* (The rupee sign of the 400 message is written out as "1 rupee".)
CreateOrder(body, maxInflight) ==
    /\ IF ~razorpay
       THEN /\ last' = Step("create", body,
                            Response(500, "Razorpay not configured. Check environment variables."),
                            NoOptions, FALSE)
            /\ UNCHANGED pending
       ELSE IF AmountInvalid(body.amount)
       THEN /\ last' = Step("create", body,
                            Response(400, "Invalid amount. Minimum amount is 1 rupee."),
                            NoOptions, FALSE)
            /\ UNCHANGED pending
       ELSE /\ DOMAIN pending # 1..maxInflight
            /\ pending' = MapSet(pending, FreeSocket(maxInflight),
                                 Suspended(body, CreateOptions(body, DateNow)))
            /\ last' = Step("create", body, NoResponse,
                            CreateOptions(body, DateNow), FALSE)
    /\ prevStore' = ordersStore
    /\ UNCHANGED <<RAZORPAY_KEY_ID, RAZORPAY_KEY_SECRET, ordersStore, minted>>

\* A handler whose options are kept in a variable shared by all requests:
\* on resuming it finds the options of the request on the highest connection.
GatewayResolve_SharedOptions(i, maxOrders) ==
    /\ i \in DOMAIN pending
    /\ minted < maxOrders
    /\ pending[i].options.amount.t = "number"
    /\ LET shared == CHOOSE s \in DOMAIN pending : \A r \in DOMAIN pending : r <= s
           options == pending[shared].options
           id == GatewayOrderId(minted + 1)
           order == GatewayOrder(id, pending[i].options)
       IN  /\ ordersStore' = MapSet(ordersStore, id, StoredOrder(options, DateNow))
           /\ last' = Step("create", pending[i].req,
                           [Response(200, "Order created successfully")
                                EXCEPT !.order = order],
                           pending[i].options, FALSE)
    /\ minted' = minted + 1
    /\ pending' = Resumed(i)
    /\ prevStore' = ordersStore
    /\ UNCHANGED <<RAZORPAY_KEY_ID, RAZORPAY_KEY_SECRET>>

\* A handler that answers when the gateway call returns and leaves the
\* storing of the order for later.
GatewayResolve_AnswersBeforeStoring(i, maxOrders) ==
    /\ i \in DOMAIN pending
    /\ minted < maxOrders
    /\ pending[i].options.amount.t = "number"
    /\ last' = Step("create", pending[i].req,
                    [Response(200, "Order created successfully")
                        EXCEPT !.order = GatewayOrder(GatewayOrderId(minted + 1),
                                                      pending[i].options)],
                    pending[i].options, FALSE)
    /\ minted' = minted + 1
    /\ pending' = Resumed(i)
    /\ prevStore' = ordersStore
    /\ UNCHANGED <<RAZORPAY_KEY_ID, RAZORPAY_KEY_SECRET, ordersStore>>

\* The gateway call of pending[i] returns an order: the handler resumes,
\* stores the order and answers.  The gateway takes integer amounts only.
GatewayResolve(i, maxOrders) ==
    /\ i \in DOMAIN pending
    /\ minted < maxOrders
    /\ pending[i].options.amount.t = "number"
    /\ LET options == pending[i].options
           id == GatewayOrderId(minted + 1)
           order == GatewayOrder(id, options)
       IN  /\ ordersStore' = MapSet(ordersStore, id, StoredOrder(options, DateNow))
           /\ last' = Step("create", pending[i].req,
                           [Response(200, "Order created successfully")
                                EXCEPT !.order = order],
                           options, FALSE)
    /\ minted' = minted + 1
    /\ pending' = Resumed(i)
    /\ prevStore' = ordersStore
    /\ UNCHANGED <<RAZORPAY_KEY_ID, RAZORPAY_KEY_SECRET>>

\* What the catch block reports: error.message || 'Failed to create order'.
\* The SDK rejects with a plain object (no message); a network failure is an
\* Error with a message.
GatewayErrorMessages == {"Failed to create order", "connect ECONNREFUSED"}

\* A catch block that records the failed order under its receipt.
GatewayReject_RecordsFailure(i, message) ==
    /\ i \in DOMAIN pending
    /\ last' = Step("create", pending[i].req, Response(500, message),
                    pending[i].options, FALSE)
    /\ ordersStore' = MapSet(ordersStore, pending[i].options.receipt.s,
                             StoredOrder(pending[i].options, DateNow))
    /\ pending' = Resumed(i)
    /\ prevStore' = ordersStore
    /\ UNCHANGED <<RAZORPAY_KEY_ID, RAZORPAY_KEY_SECRET, minted>>

\* A handler without the catch block: the failure of the gateway call is
\* lost and the request stays open.
GatewayReject_NeverAnswers(i, message) ==
    /\ i \in DOMAIN pending
    /\ UNCHANGED vars

\* A catch block that calls the gateway again instead of answering.
GatewayReject_Retries(i, message) ==
    /\ i \in DOMAIN pending
    /\ pending' = [pending EXCEPT ![i].calls = @ + 1]
    /\ last' = Step("create", pending[i].req, NoResponse, pending[i].options, FALSE)
    /\ prevStore' = ordersStore
    /\ UNCHANGED <<RAZORPAY_KEY_ID, RAZORPAY_KEY_SECRET, ordersStore, minted>>

\* The gateway call of pending[i] fails: the catch block answers.
GatewayReject(i, message) ==
    /\ i \in DOMAIN pending
    /\ last' = Step("create", pending[i].req, Response(500, message),
                    pending[i].options, FALSE)
    /\ pending' = Resumed(i)
    /\ prevStore' = ordersStore
    /\ UNCHANGED <<RAZORPAY_KEY_ID, RAZORPAY_KEY_SECRET, ordersStore, minted>>

----------------------------------------------------------------------------
(* POST /api/verify-payment *)

\* A method of String called on a value that is not a string
\* (signature.substring, order_id.trim): a TypeError, caught by the handler.
NotAString(v) == Truthy(v) /\ v.t # "string"

\* The check without the trim.
ParamRequired_NoTrim(v) == Falsy(v)

\* `!v || v.trim() === ''`, for v a string or a falsy value.
ParamRequired(v) == Falsy(v) \/ Trim(v.s) = <<>>

\* A test for undefined alone, which lets an empty secret through.
SecretMissing_UndefinedOnly(secret) == secret.t = "undefined"

\* `!RAZORPAY_KEY_SECRET`
SecretMissing(secret) == Falsy(secret)

\* The two ids joined with nothing between them.
SignedBody_NoSeparator(order_id, payment_id) == order_id.s \o payment_id.s

\* order_id + "|" + payment_id
SignedBody(order_id, payment_id) == order_id.s \o <<"|">> \o payment_id.s

\* The comparison made after trimming the claimed signature.
SignatureMatches_Trimmed(generated, signature) ==
    signature.t = "string" /\ generated = Trim(signature.s)

\* generated_signature === signature
SignatureMatches(generated, signature) == Str(generated) = signature

\* The update without the timestamp.
MarkVerified_NoTimestamp(orderData, payment_id, t) ==
    [orderData EXCEPT !.status = "verified", !.payment_id = payment_id]

\* An update that flags the second verification of an order as a duplicate.
MarkVerified_FlagsRepeat(orderData, payment_id, t) ==
    IF orderData.status = "verified"
    THEN [orderData EXCEPT !.status = "duplicate"]
    ELSE [orderData EXCEPT !.status = "verified", !.payment_id = payment_id,
                           !.verified_at = IsoString(t)]

\* An update that files the payment id as the receipt of the order.
MarkVerified_RewritesReceipt(orderData, payment_id, t) ==
    [orderData EXCEPT !.status = "verified", !.payment_id = payment_id,
                      !.verified_at = IsoString(t), !.receipt = payment_id]

\* An update of the status alone.
MarkVerified_StatusOnly(orderData, payment_id, t) ==
    [orderData EXCEPT !.status = "verified"]

\* An update that keeps the payment id of the first verification.
MarkVerified_FirstPaymentWins(orderData, payment_id, t) ==
    IF orderData.payment_id # Undefined
    THEN [orderData EXCEPT !.status = "verified", !.verified_at = IsoString(t)]
    ELSE [orderData EXCEPT !.status = "verified", !.payment_id = payment_id,
                           !.verified_at = IsoString(t)]

\* The in-place update of the stored order on a match.
MarkVerified(orderData, payment_id, t) ==
    [orderData EXCEPT !.status = "verified", !.payment_id = payment_id,
                      !.verified_at = IsoString(t)]

\* The update without the has() test: an order that is not in the store is
\* written as a new entry.
StoreAfterMatch_Upsert(store, order_id, payment_id, t) ==
    MapSet(store, order_id.s,
           IF order_id.s \in DOMAIN store
           THEN MarkVerified(store[order_id.s], payment_id, t)
           ELSE MarkVerified(StoredOrder(NoOptions, t), payment_id, t))

\* On a match: `if (ordersStore.has(order_id)) { ... }`
StoreAfterMatch(store, order_id, payment_id, t) ==
    IF order_id.s \in DOMAIN store
    THEN MapSet(store, order_id.s, MarkVerified(store[order_id.s], payment_id, t))
    ELSE store

\* A mismatch that marks the stored order.
StoreAfterMismatch_MarksFailed(store, order_id) ==
    IF order_id.s \in DOMAIN store
    THEN MapSet(store, order_id.s,
                [store[order_id.s] EXCEPT !.status = "verification_failed"])
    ELSE store

\* A mismatch that puts the stored order back to created.
StoreAfterMismatch_Reopens(store, order_id) ==
    IF order_id.s \in DOMAIN store
    THEN MapSet(store, order_id.s, [store[order_id.s] EXCEPT !.status = "created"])
    ELSE store

\* On a mismatch the else branch logs and answers; it does not touch the store.
StoreAfterMismatch(store, order_id) == store

VerifiedResponse(order_id, payment_id, t) ==
    [Response(200, "Payment verified successfully")
        EXCEPT !.order_id = order_id, !.payment_id = payment_id,
               !.verified_at = IsoString(t)]

Outcome(res, store, hmac) == [res |-> res, store |-> store, hmac |-> hmac]

CaughtError(store) ==
    Outcome(Response(500, "Internal server error during verification"), store, FALSE)

\* The handler with the test of the secret put before the tests of the
\* parameters.
VerifyOutcome_SecretFirst(body, store, secret, t) ==
    LET order_id == body.order_id
        payment_id == body.payment_id
        signature == body.signature
        generated == HmacSha256Hex(secret.s, SignedBody(order_id, payment_id))
    IN  IF NotAString(signature) THEN CaughtError(store)
        ELSE IF SecretMissing(secret)
        THEN Outcome(Response(500, "Server configuration error. Please contact support."),
                     store, FALSE)
        ELSE IF NotAString(order_id) THEN CaughtError(store)
        ELSE IF ParamRequired(order_id)
        THEN Outcome(Response(400, "Order ID is required"), store, FALSE)
        ELSE IF NotAString(payment_id) THEN CaughtError(store)
        ELSE IF ParamRequired(payment_id)
        THEN Outcome(Response(400, "Payment ID is required"), store, FALSE)
        ELSE IF ParamRequired(signature)
        THEN Outcome(Response(400, "Signature is required"), store, FALSE)
        ELSE IF SignatureMatches(generated, signature)
        THEN Outcome(VerifiedResponse(order_id, payment_id, t),
                     StoreAfterMatch(store, order_id, payment_id, t), TRUE)
        ELSE Outcome(Response(400, "Payment verification failed. Invalid signature."),
                     StoreAfterMismatch(store, order_id), TRUE)

\* The whole handler: the response, the store it leaves and whether it
\* computed the HMAC.
VerifyOutcome(body, store, secret, t) ==
    LET order_id == body.order_id
        payment_id == body.payment_id
        signature == body.signature
        generated == HmacSha256Hex(secret.s, SignedBody(order_id, payment_id))
    IN  IF NotAString(signature) THEN CaughtError(store)
        ELSE IF NotAString(order_id) THEN CaughtError(store)
        ELSE IF ParamRequired(order_id)
        THEN Outcome(Response(400, "Order ID is required"), store, FALSE)
        ELSE IF NotAString(payment_id) THEN CaughtError(store)
        ELSE IF ParamRequired(payment_id)
        THEN Outcome(Response(400, "Payment ID is required"), store, FALSE)
        ELSE IF ParamRequired(signature)
        THEN Outcome(Response(400, "Signature is required"), store, FALSE)
        ELSE IF SecretMissing(secret)
        THEN Outcome(Response(500, "Server configuration error. Please contact support."),
                     store, FALSE)
        ELSE IF SignatureMatches(generated, signature)
        THEN Outcome(VerifiedResponse(order_id, payment_id, t),
                     StoreAfterMatch(store, order_id, payment_id, t), TRUE)
        ELSE Outcome(Response(400, "Payment verification failed. Invalid signature."),
                     StoreAfterMismatch(store, order_id), TRUE)

VerifyPayment(body) ==
    LET out == VerifyOutcome(body, ordersStore, RAZORPAY_KEY_SECRET, DateNow)
    IN  /\ ordersStore' = out.store
        /\ last' = Step("verify", body, out.res, NoOptions, out.hmac)
        /\ prevStore' = ordersStore
        /\ UNCHANGED <<RAZORPAY_KEY_ID, RAZORPAY_KEY_SECRET, pending, minted>>

----------------------------------------------------------------------------
(* GET /api/orders *)

\* ({id, ...data}): the stored order with its id put in.
OrderItem(id, data) ==
    [id |-> Str(id), amount |-> data.amount, currency |-> data.currency,
     receipt |-> data.receipt, status |-> data.status,
     created_at |-> data.created_at, payment_id |-> data.payment_id,
     verified_at |-> data.verified_at]

\* A listing that leaves out the orders that are not verified yet.
OrdersList_VerifiedOnly(store) ==
    {OrderItem(id, store[id]) : id \in {k \in DOMAIN store : store[k].status = "verified"}}

\* Array.from(ordersStore.entries()).map(([id, data]) => ({id, ...data})):
\* the items of the array (its order, that of insertion, is left out).
OrdersList(store) == {OrderItem(id, store[id]) : id \in DOMAIN store}

\* The handler reads the store and answers; it writes nothing.
ListOrders ==
    /\ last' = Step("list", NoBody,
                    [Response(200, "") EXCEPT
                        !.count = Whole(Cardinality(OrdersList(ordersStore))),
                        !.orders = OrdersList(ordersStore)],
                    NoOptions, FALSE)
    /\ prevStore' = ordersStore
    /\ UNCHANGED <<RAZORPAY_KEY_ID, RAZORPAY_KEY_SECRET, ordersStore, pending,
                   minted>>

----------------------------------------------------------------------------
(* GET /api/orders/:orderId: the server has no such route, and the request   *)
(* falls through to the middleware that answers every unmatched request.     *)

\* The request, its path parameter held in the order_id field.
FetchRequest(orderId) == VerifyBody(Str(orderId), Undefined, Undefined)

FetchOrder(orderId) ==
    /\ last' = Step("fetch", FetchRequest(orderId),
                    Response(404, "Route not found: GET /api/orders/:orderId"),
                    NoOptions, FALSE)
    /\ prevStore' = ordersStore
    /\ UNCHANGED <<RAZORPAY_KEY_ID, RAZORPAY_KEY_SECRET, ordersStore, pending,
                   minted>>

----------------------------------------------------------------------------
(* The environment the server starts in and the requests the clients send *)

ServerKey == <<"k", "1">>
OtherKey == <<"k", "2">>

\* process.env: a variable is unset, empty or set.
KeyIdSettings == {Undefined, Str(<<"i", "d">>)}
KeySecretSettings == {Undefined, Str(<<>>), Str(ServerKey)}

UpperHexDigits == <<"0", "1", "2", "3", "4", "5", "6", "7", "8", "9",
                    "A", "B", "C", "D", "E", "F">>

\* The same digest written with capital hexadecimal digits.
UpperHex(chars) ==
    [i \in 1..Len(chars) |->
        UpperHexDigits[CHOOSE d \in 1..16 : HexDigits[d] = chars[i]]]

LargestAmount == Whole(10000000)

\* Amounts around the minimum, fractions that round down and up, whole
\* amounts, a very large one, and values that are not numbers.
AmountInputs ==
    {Undefined, Whole(0), Num(0, 500), Num(0, 999), Whole(-5), Num(1, 6),
     Whole(50), Whole(50000), LargestAmount, Str(<<"a", "b", "c">>),
     Str(<<" ">>)}

PlainCreateBody == CreateBody(Whole(50), Undefined, Undefined)

FullCreateBody ==
    CreateBody(Num(1, 4), Str(<<"U", "S", "D">>), Str(<<"r", "1">>))

AmountCreateBodies == {CreateBody(a, Undefined, Undefined) : a \in AmountInputs}

\* The length gateways cap a receipt at.
MaxReceiptLength == 40

\* Requests with a receipt of the longest length allowed and of one more.
ReceiptCreateBodies ==
    {CreateBody(Whole(50), Undefined, Str([i \in 1..len |-> "x"])) :
        len \in {MaxReceiptLength, MaxReceiptLength + 1}}

UnknownOrderId == <<"o", "9">>
KnownOrderIds == {GatewayOrderId(k) : k \in 1..MaxOrders}
PaymentIds == {<<"p", "1">>, <<"p", "2">>}

GatewaySignature(key, o, p) == HmacSha256Hex(key, SignedBody(Str(o), Str(p)))

\* The signatures a client may submit for order o and payment p: the
\* gateway's own, the same in capitals, the same with a space appended, the
\* gateway's for the other payments of the order, and one made with another key.
SignaturesFor(o, p) ==
    {Str(GatewaySignature(ServerKey, o, p)),
     Str(UpperHex(GatewaySignature(ServerKey, o, p))),
     Str(GatewaySignature(ServerKey, o, p) \o <<" ">>),
     Str(GatewaySignature(OtherKey, o, p))}
    \cup {Str(GatewaySignature(ServerKey, o, q)) : q \in PaymentIds}

\* Requests whose three fields are non-blank strings.
WellFormedVerifyBodies ==
    UNION {{VerifyBody(Str(o), Str(p), g) : g \in SignaturesFor(o, p)} :
             o \in KnownOrderIds \cup {UnknownOrderId}, p \in PaymentIds}

\* What a field holds when it is missing or blank, or of the wrong type.
BlankValues == {Undefined, Str(<<>>), Str(<<" ", " ">>)}
WrongTypeValues == {Whole(7)}

\* A good request for the first order with one, two or three of its fields
\* blank or of the wrong type.
DefectiveVerifyBodies ==
    LET o == GatewayOrderId(1)
        p == <<"p", "1">>
        good == Str(GatewaySignature(ServerKey, o, p))
        bad == BlankValues \cup WrongTypeValues
    IN  {VerifyBody(x, Str(p), good) : x \in bad}
        \cup {VerifyBody(Str(o), x, good) : x \in bad}
        \cup {VerifyBody(Str(o), Str(p), x) : x \in bad}
        \cup {VerifyBody(x, Str(p), Str(<<>>)) : x \in bad}
        \cup {VerifyBody(Undefined, Undefined, Undefined),
              VerifyBody(Str(o), Str(<<" ">>), Whole(7))}

VerifyBodies == WellFormedVerifyBodies \cup DefectiveVerifyBodies

\* Ids that run into each other when joined, without and with the
\* separator inside an id.
PairOrderIds == {<<"a">>, <<"a", "b">>, <<"a", "|", "b">>}
PairPaymentIds == {<<"c">>, <<"b", "c">>, <<"b", "|", "c">>}

\* Every such pair of ids with the gateway's signature of every such pair.
PairVerifyBodies ==
    {VerifyBody(Str(o), Str(p), Str(GatewaySignature(ServerKey, o2, p2))) :
        o \in PairOrderIds, p \in PairPaymentIds,
        o2 \in PairOrderIds, p2 \in PairPaymentIds}

\* The ids asked for one by one: the first order's and one never created.
FetchIds == {GatewayOrderId(1), UnknownOrderId}

FewVerifyBodies ==
    LET o == GatewayOrderId(1)
        p == <<"p", "1">>
    IN  {VerifyBody(Str(o), Str(p), Str(GatewaySignature(ServerKey, o, p))),
         VerifyBody(Str(o), Str(p), Str(GatewaySignature(OtherKey, o, p))),
         VerifyBody(Str(o), Str(p), Undefined)}

----------------------------------------------------------------------------
(* The server *)

Init ==
    /\ RAZORPAY_KEY_ID \in KeyIdSettings
    /\ RAZORPAY_KEY_SECRET \in KeySecretSettings
    /\ ordersStore = EmptyStore
    /\ pending = NoneSuspended
    /\ minted = 0
    /\ last = Step("none", NoBody, NoResponse, NoOptions, FALSE)
    /\ prevStore = EmptyStore

NextOver(createBodies, verifyBodies, maxInflight, maxOrders) ==
    \/ \E body \in createBodies : CreateOrder(body, maxInflight)
    \/ \E i \in 1..maxInflight : GatewayResolve(i, maxOrders)
    \/ \E i \in 1..maxInflight, message \in GatewayErrorMessages :
          GatewayReject(i, message)
    \/ \E body \in verifyBodies : VerifyPayment(body)
    \/ ListOrders
    \/ \E orderId \in FetchIds : FetchOrder(orderId)

\* A few requests of every kind.
Next ==
    NextOver({PlainCreateBody, FullCreateBody,
              CreateBody(Undefined, Undefined, Undefined)},
             FewVerifyBodies, MaxInflight, MaxOrders)

Spec == Init /\ [][Next]_vars

\* The promise of the gateway call of connection i settles, either way.
GatewayReturns(i) ==
    \/ GatewayResolve(i, MaxOrders)
    \/ \E message \in GatewayErrorMessages : GatewayReject(i, message)

\* The same server when every gateway call returns or fails in the end.
LiveSpec ==
    Init /\ [][Next]_vars /\ \A i \in 1..MaxInflight : WF_vars(GatewayReturns(i))

\* Verification requests of every shape against orders created the plain way.
VerifyNext == NextOver({PlainCreateBody}, VerifyBodies, MaxInflight, MaxOrders)

VerifySpec == Init /\ [][VerifyNext]_vars

\* Verifications of pairs of ids whose signed messages may coincide.
PairNext ==
    NextOver({PlainCreateBody}, PairVerifyBodies, CreateMaxInflight,
             CreateMaxOrders)

PairSpec == Init /\ [][PairNext]_vars

\* Creation requests with every amount and with long receipts, and a few
\* verifications.
CreateNext ==
    NextOver(AmountCreateBodies \cup ReceiptCreateBodies \cup {FullCreateBody},
             FewVerifyBodies, CreateMaxInflight, CreateMaxOrders)

CreateSpec == Init /\ [][CreateNext]_vars

----------------------------------------------------------------------------
(* Properties of POST /api/verify-payment, checked under VerifySpec *)

\* A field that is a string with something other than white space in it.
Present(v) == v.t = "string" /\ \E i \in 1..Len(v.s) : v.s[i] # " "

\* A field that is missing, or a string of white space only.
Blank(v) == v.t = "undefined" \/ (v.t = "string" /\ \A i \in 1..Len(v.s) : v.s[i] = " ")

AllPresent(req) ==
    Present(req.order_id) /\ Present(req.payment_id) /\ Present(req.signature)

SecretConfigured ==
    RAZORPAY_KEY_SECRET.t = "string" /\ Len(RAZORPAY_KEY_SECRET.s) > 0

\* HMAC-SHA256(secret, order_id + "|" + payment_id) in lowercase hex.
ExpectedSignature(req) ==
    Str(HmacSha256Hex(RAZORPAY_KEY_SECRET.s,
                      req.order_id.s \o <<"|">> \o req.payment_id.s))

\* A verification whose parameters are present, on a server with a secret.
Verifying ==
    last.op = "verify" /\ AllPresent(last.req) /\ SecretConfigured

MismatchMessage == "Payment verification failed. Invalid signature."

\* C1: with the three parameters present and the secret configured, the
\* request succeeds exactly when the submitted signature is the lowercase hex
\* HMAC of order_id|payment_id under the secret; any other signature is
\* rejected as a signature mismatch.
C1_SignatureDecidesVerification ==
    Verifying =>
        IF last.req.signature = ExpectedSignature(last.req)
        THEN last.res.status = 200
        ELSE last.res.status = 400 /\ last.res.message = MismatchMessage

C1_Witness ==
    /\ Verifying
    /\ last.req.signature = ExpectedSignature(last.req)
    /\ last.res.status = 200

\* A matching verification of an order that was in the store.
MatchingKnownOrder ==
    /\ Verifying
    /\ last.req.signature = ExpectedSignature(last.req)
    /\ last.req.order_id.s \in DOMAIN prevStore

\* C2: a matching signature for an order in the store leaves that order
\* verified, with the claimed payment id and a verified_at, and the response
\* is a success echoing the order id and the payment id.
C2_MatchMarksOrderVerified ==
    MatchingKnownOrder =>
        /\ last.res.status = 200
        /\ last.res.order_id = last.req.order_id
        /\ last.res.payment_id = last.req.payment_id
        /\ last.req.order_id.s \in DOMAIN ordersStore
        /\ ordersStore[last.req.order_id.s].status = "verified"
        /\ ordersStore[last.req.order_id.s].payment_id = last.req.payment_id
        /\ ordersStore[last.req.order_id.s].verified_at # Undefined

C2_Witness ==
    /\ MatchingKnownOrder
    /\ prevStore[last.req.order_id.s].status = "created"
    /\ ordersStore[last.req.order_id.s].status = "verified"

\* A mismatching verification of an order that was in the store.
MismatchingKnownOrder ==
    /\ Verifying
    /\ last.req.signature # ExpectedSignature(last.req)
    /\ last.req.order_id.s \in DOMAIN prevStore

\* C3 as stated: a mismatching signature for an order in the store moves the
\* order to verification_failed (and counts the attempt; the stored order of
\* the code has no such counter) and is answered with a client error.
C3_MismatchMarksOrderFailed ==
    MismatchingKnownOrder =>
        /\ ordersStore[last.req.order_id.s].status = "verification_failed"
        /\ last.res.status = 400

\* C3 as amended: a mismatching signature for an order in the store leaves the
\* store as it was, the order included, and is answered with the client
\* error of a signature mismatch.
C3_MismatchLeavesStore ==
    MismatchingKnownOrder =>
        /\ ordersStore = prevStore
        /\ last.res.status = 400
        /\ last.res.message = MismatchMessage

C3_Witness ==
    /\ MismatchingKnownOrder
    /\ last.res.status = 400
    /\ ordersStore[last.req.order_id.s].status = "verified"

\* A verification of an order id that was not a key of the store.
VerifyingUnknownOrder ==
    Verifying /\ last.req.order_id.s \notin DOMAIN prevStore

\* C4 as stated: a verification for an order id that is not in the store is
\* rejected (OrderNotFound), also when the signature matches, and the store
\* keeps its keys.
C4_UnknownOrderRejected ==
    VerifyingUnknownOrder =>
        /\ last.res.status # 200
        /\ DOMAIN ordersStore = DOMAIN prevStore

\* C4 as amended: for an order id that is not in the store the signature
\* alone decides (success on a match, signature mismatch otherwise) and the
\* store is left as it was, so no entry is created.
C4_UnknownOrderDecidedBySignature ==
    VerifyingUnknownOrder =>
        /\ last.res.status =
             (IF last.req.signature = ExpectedSignature(last.req) THEN 200 ELSE 400)
        /\ last.res.status = 400 => last.res.message = MismatchMessage
        /\ ordersStore = prevStore

C4_Witness ==
    /\ VerifyingUnknownOrder
    /\ last.res.status = 200
    /\ DOMAIN ordersStore # {}

\* The fields of the request are strings or missing.
StringsOrMissing(req) ==
    /\ req.order_id.t \in {"string", "undefined"}
    /\ req.payment_id.t \in {"string", "undefined"}
    /\ req.signature.t \in {"string", "undefined"}

\* The message naming the first field that is missing or blank.
RequiredMessage(req) ==
    IF Blank(req.order_id) THEN "Order ID is required"
    ELSE IF Blank(req.payment_id) THEN "Payment ID is required"
    ELSE "Signature is required"

\* C5: a verification with order id, payment id or signature missing or
\* empty after trimming is rejected with a client error naming the (first)
\* such field, computes no HMAC and leaves the store as it was; an empty
\* signature, the other two present, is answered "Signature is required".
C5_MissingParameterRejected ==
    ( /\ last.op = "verify"
      /\ StringsOrMissing(last.req)
      /\ Blank(last.req.order_id) \/ Blank(last.req.payment_id)
            \/ Blank(last.req.signature) ) =>
        /\ last.res.status = 400
        /\ last.res.message = RequiredMessage(last.req)
        /\ ~last.hmac
        /\ ordersStore = prevStore

C5_Witness ==
    /\ last.op = "verify"
    /\ Present(last.req.order_id) /\ Present(last.req.payment_id)
    /\ last.req.signature = Str(<<>>)
    /\ last.req.order_id.s \in DOMAIN ordersStore
    /\ last.res.status = 400
    /\ last.res.message = "Signature is required"

\* C6: on a server without the secret (unset or empty) a verification whose
\* three parameters are present is answered with the server error of a
\* misconfigured server, never with a success or a client error, and the
\* store is left as it was.
C6_MissingSecretIsServerError ==
    (last.op = "verify" /\ AllPresent(last.req) /\ ~SecretConfigured) =>
        /\ last.res.status = 500
        /\ last.res.message = "Server configuration error. Please contact support."
        /\ ordersStore = prevStore

C6_Witness ==
    /\ last.op = "verify" /\ AllPresent(last.req)
    /\ RAZORPAY_KEY_SECRET = Str(<<>>)
    /\ last.res.status = 500

----------------------------------------------------------------------------
(* Properties of POST /api/create-order, checked under CreateSpec *)

IsNumber(v) == v.t = "number"

\* A create-order step on a server whose gateway client is configured.
Creating == last.op = "create" /\ razorpay

\* The step rejected the request as a client error before any gateway call
\* and left the store as it was.
RejectedEarly ==
    /\ last.res.status = 400
    /\ last.sent = NoOptions
    /\ ordersStore = prevStore

\* The value of an amount times 100 is below k, for the value n + f/1000.
HundredfoldBelow(v, k) == PaisePerUnit * v.n + (v.f \div 10) < k

\* C7 as stated: the amount is a whole number of the smallest unit and the
\* minimum is 100, so a request whose amount is below 100, such as 50, is
\* rejected, with no gateway call and no new entry.
C7_BelowHundredRejected ==
    (Creating /\ IsNumber(last.req.amount) /\ last.req.amount.f = 0
        /\ last.req.amount.n < MinimumAmount * PaisePerUnit) => RejectedEarly

\* C7 as amended: the amount is in rupees and the minimum is 1 rupee; a
\* request whose amount is below it (below 100 paise once multiplied by 100),
\* such as 0.5, is rejected with the client error "Invalid amount. Minimum
\* amount is 1 rupee", with no gateway call and no new entry.
C7_BelowMinimumRejected ==
    (Creating /\ IsNumber(last.req.amount)
        /\ HundredfoldBelow(last.req.amount, MinimumAmount * PaisePerUnit)) =>
        /\ RejectedEarly
        /\ last.res.message = "Invalid amount. Minimum amount is 1 rupee."

C7_Witness ==
    /\ Creating
    /\ last.req.amount = Num(0, 500)
    /\ RejectedEarly
    /\ DOMAIN ordersStore # {}

\* C8: a request whose amount is above the maximum is rejected, with no new
\* entry.  The handler has no maximum; the formula takes the largest amount
\* of the model, ten million rupees, to be above it.
C8_AboveMaximumRejected ==
    (Creating /\ last.req.amount = LargestAmount) => RejectedEarly

\* An amount that is missing or is a string that is not a numeral.
NotAValidNumber(v) ==
    \/ v.t = "undefined"
    \/ v.t = "string" /\ \E i \in 1..Len(v.s) : ~IsDigit(v.s[i])

\* C9: a request whose amount is missing or is not a valid number is
\* rejected as an invalid amount: no gateway call is made for it and no entry
\* is added.
C9_NotANumberRejected ==
    (Creating /\ NotAValidNumber(last.req.amount)) => RejectedEarly

\* The stored order of the request that has just succeeded.
CreatedEntry == ordersStore[last.res.order.id.s]

\* The integer paise is the one nearest to 100 times the amount n + f/1000:
\* paise = 100 n + q with |10 q - f| <= 5.
NearestPaise(paise, amount) ==
    /\ IsNumber(paise) /\ paise.f = 0
    /\ LET q == paise.n - PaisePerUnit * amount.n
       IN  10 * q - amount.f \in -5..5

\* C10 as stated: the amount stored for a successful request is the amount
\* of the request (50000 is stored as 50000).
C10_StoredAmountIsRequestAmount ==
    (Creating /\ last.res.status = 200) => CreatedEntry.amount = last.req.amount

\* C10 as amended: a request whose amount is a number of at least 1 rupee
\* is passed to the gateway with the amount Math.round(amount * 100); when
\* the gateway call succeeds the request succeeds and the stored amount is
\* that amount sent to the gateway, which the gateway returns: the request
\* amount in paise, not the request amount (50000 is stored as 5000000).
C10_StoredAmountIsPaiseSent ==
    /\ (Creating /\ IsNumber(last.req.amount)
            /\ ~HundredfoldBelow(last.req.amount, MinimumAmount * PaisePerUnit)) =>
          /\ last.sent # NoOptions
          /\ NearestPaise(last.sent.amount, last.req.amount)
          /\ last.res.status \in {0, 200, 500}
    /\ (Creating /\ last.res.status = 200) =>
          /\ last.res.order.id.s \in DOMAIN ordersStore
          /\ last.res.order.id.s \notin DOMAIN prevStore
          /\ CreatedEntry.amount = last.sent.amount
          /\ CreatedEntry.amount = last.res.order.amount

C10_Witness ==
    /\ Creating
    /\ last.req.amount = Whole(50000)
    /\ last.res.status = 200
    /\ CreatedEntry.amount = Whole(5000000)

----------------------------------------------------------------------------
(* Properties of the order ledger *)

\* A create-order request that has been answered with a success.
Created == last.op = "create" /\ last.res.status = 200

\* A field the request does not carry, or carries empty.
Omitted(v) == v = Undefined \/ v = Str(<<>>)

\* C11: a successful create-order adds exactly one entry to the store, under
\* the id of the order the gateway returned, and leaves the other entries as
\* they were; the entry has status created, no payment id, and the currency
\* of the request, or INR when the request has none; the response carries
\* the order the gateway returned for the options sent.
C11_SuccessInsertsCreatedOrder ==
    Created =>
        LET id == last.res.order.id.s
        IN  /\ last.res.order.id.t = "string"
            /\ id \notin DOMAIN prevStore
            /\ DOMAIN ordersStore = DOMAIN prevStore \cup {id}
            /\ \A k \in DOMAIN prevStore : ordersStore[k] = prevStore[k]
            /\ ordersStore[id].status = "created"
            /\ ordersStore[id].payment_id = Undefined
            /\ ordersStore[id].currency =
                  (IF Omitted(last.req.currency) THEN Str(Chars_INR)
                   ELSE last.req.currency)
            /\ last.res.order.amount = last.sent.amount
            /\ last.res.order.currency = ordersStore[id].currency
            /\ last.res.order.receipt = last.sent.receipt

C11_Witness ==
    /\ Created
    /\ last.req.currency = Undefined
    /\ ordersStore[last.res.order.id.s].currency = Str(Chars_INR)
    /\ ordersStore[last.res.order.id.s].status = "created"

\* A create-order request whose gateway call has failed: the handler had
\* passed its options to the gateway and has answered without a success.
GatewayFailed ==
    /\ last.op = "create"
    /\ last.sent # NoOptions
    /\ last.res # NoResponse
    /\ last.res.status # 200

\* C12: when the gateway call of a create-order request fails, the request is
\* answered with a server error carrying the message of the failure (or the
\* generic one) and the store is left as it was: no entry is added.
C12_GatewayFailureLeavesStore ==
    GatewayFailed =>
        /\ last.res.status = 500
        /\ last.res.message \in GatewayErrorMessages
        /\ last.res.order = NoOrder
        /\ ordersStore = prevStore

C12_Witness ==
    /\ GatewayFailed
    /\ last.res.status = 500
    /\ DOMAIN ordersStore = {GatewayOrderId(1)}
    /\ ordersStore = prevStore

\* A credential of the gateway is unset or empty in the environment.
CredentialsMissing ==
    \/ RAZORPAY_KEY_ID \in {Undefined, Str(<<>>)}
    \/ RAZORPAY_KEY_SECRET \in {Undefined, Str(<<>>)}

NotConfiguredMessage == "Razorpay not configured. Check environment variables."

\* C13: on a server started without the credentials of the gateway, every
\* create-order request, whatever its amount, is answered at once with the
\* server error "Razorpay not configured", no options are passed to the
\* gateway and the store is left as it was; no call is ever outstanding, no
\* order is ever made by the gateway and the store stays empty.
C13_NotConfiguredFailsFast ==
    CredentialsMissing =>
        /\ pending = NoneSuspended
        /\ minted = 0
        /\ ordersStore = EmptyStore
        /\ last.op = "create" =>
              /\ last.res.status = 500
              /\ last.res.message = NotConfiguredMessage
              /\ last.sent = NoOptions
              /\ ordersStore = prevStore

C13_Witness ==
    /\ CredentialsMissing
    /\ last.op = "create"
    /\ last.req.amount = Whole(50)
    /\ last.res.status = 500
    /\ last.res.message = NotConfiguredMessage

Statuses == {"created", "verified", "verification_failed"}

ForwardMoves ==
    {<<"created", "verified">>, <<"created", "verification_failed">>,
     <<"verification_failed", "verified">>}

\* C14: the status of every stored order is created, verified or
\* verification_failed, and no step takes an order out of the store or
\* changes its status other than from created to verified, from created to
\* verification_failed or from verification_failed to verified; so an order
\* that is verified stays verified through every later request.
C14_StatusMovesForward ==
    /\ [](\A id \in DOMAIN ordersStore : ordersStore[id].status \in Statuses)
    /\ [][\A id \in DOMAIN ordersStore :
            /\ id \in DOMAIN ordersStore'
            /\ \/ ordersStore'[id].status = ordersStore[id].status
               \/ <<ordersStore[id].status, ordersStore'[id].status>> \in ForwardMoves]_vars

\* A further order has been created after the first one was verified.
C14_Witness ==
    /\ Created
    /\ GatewayOrderId(1) \in DOMAIN prevStore
    /\ prevStore[GatewayOrderId(1)].status = "verified"
    /\ ordersStore[GatewayOrderId(1)].status = "verified"
    /\ ordersStore[GatewayOrderId(2)].status = "created"

\* The stored order of the request is verified with the payment of the request.
VerifiedWith(req, store) ==
    /\ store[req.order_id.s].status = "verified"
    /\ store[req.order_id.s].payment_id = req.payment_id

\* A verification that has succeeded for an order in the store.
VerifiedKnownOrder ==
    /\ last.op = "verify"
    /\ last.res.status = 200
    /\ last.req.order_id.s \in DOMAIN ordersStore

\* C15: when a verification has succeeded and the same order id, payment id
\* and signature are submitted again as the next request, that request
\* succeeds too; for an order in the store, the order is verified with that
\* payment id after the first request and after the second.
C15_ReverificationSucceeds ==
    /\ [](VerifiedKnownOrder => VerifiedWith(last.req, ordersStore))
    /\ [][(last.op = "verify" /\ last.res.status = 200
            /\ last'.op = "verify" /\ last'.req = last.req) =>
               /\ last'.res.status = 200
               /\ last'.res.order_id = last.req.order_id
               /\ last'.res.payment_id = last.req.payment_id
               /\ last.req.order_id.s \in DOMAIN ordersStore =>
                     /\ last.req.order_id.s \in DOMAIN ordersStore'
                     /\ VerifiedWith(last.req, ordersStore')]_vars

\* The second of two successful verifications of the same order and payment:
\* the order was verified with that payment before the request.
C15_Witness ==
    /\ VerifiedKnownOrder
    /\ last.req.order_id.s \in DOMAIN prevStore
    /\ VerifiedWith(last.req, prevStore)
    /\ VerifiedWith(last.req, ordersStore)

\* What was fixed when the order was created.
CreationFields(orderData) ==
    <<orderData.amount, orderData.currency, orderData.receipt>>

\* C16: no step (a verification that matches or does not, a listing of the
\* orders, a create-order request or its completion) takes an order out of
\* the store or changes its amount, its currency or its receipt.
C16_CreationFieldsNeverChange ==
    [][\A id \in DOMAIN ordersStore :
          /\ id \in DOMAIN ordersStore'
          /\ CreationFields(ordersStore'[id]) = CreationFields(ordersStore[id])]_vars

\* The orders are listed after the first of two was verified: it still has
\* the amount, currency and receipt of its request.
C16_Witness ==
    /\ last.op = "list"
    /\ Cardinality(DOMAIN ordersStore) = 2
    /\ ordersStore[GatewayOrderId(1)].status = "verified"
    /\ CreationFields(ordersStore[GatewayOrderId(1)]) =
          <<Whole(100), Str(<<"U", "S", "D">>), Str(<<"r", "1">>)>>
    /\ Cardinality(last.res.orders) = 2

\* The ids the gateway has returned so far.
ReturnedIds == {GatewayOrderId(k) : k \in 1..minted}

\* C17: every key of the store is an id the gateway has returned, and each
\* returned id has its own entry (none was written over another); a key is
\* added only by a create-order request completing with a success, one key
\* at a time and never one that was there already; a verification, whatever
\* its outcome, leaves the keys as they were.
C17_InsertedOnceByCreate ==
    /\ [](/\ DOMAIN ordersStore = ReturnedIds
          /\ Cardinality(DOMAIN ordersStore) = minted
          /\ last.op = "verify" => DOMAIN ordersStore = DOMAIN prevStore)
    /\ [][DOMAIN ordersStore' # DOMAIN ordersStore =>
            /\ last'.op = "create" /\ last'.res.status = 200
            /\ last'.res.order.id.s \notin DOMAIN ordersStore
            /\ DOMAIN ordersStore' = DOMAIN ordersStore \cup {last'.res.order.id.s}]_vars

\* A matching verification of an order id the store does not hold has been
\* answered, and the store holds the two orders created and nothing else.
C17_Witness ==
    /\ last.op = "verify"
    /\ last.res.status = 200
    /\ last.req.order_id.s \notin DOMAIN ordersStore
    /\ DOMAIN ordersStore = {GatewayOrderId(1), GatewayOrderId(2)}

\* A verification request that is in error: a field is missing, blank or
\* not a string, or the signature is not the expected one.
VerifyCallerError(req) ==
    \/ ~AllPresent(req)
    \/ req.signature # ExpectedSignature(req)

\* A create-order request that is in error: the amount is not a number of
\* at least the minimum.
CreateCallerError(req) ==
    \/ ~IsNumber(req.amount)
    \/ HundredfoldBelow(req.amount, MinimumAmount * PaisePerUnit)

\* C18: on a server with its credentials, a request that is in error (a
\* field missing, blank or of the wrong type, an amount out of bounds, a
\* signature that does not match) is answered with a client error, never
\* with a server error.
C18_CallerErrorIsClientError ==
    (razorpay /\ last.res # NoResponse) =>
        /\ (last.op = "verify" /\ VerifyCallerError(last.req)) =>
              last.res.status = 400
        /\ (last.op = "create" /\ CreateCallerError(last.req)) =>
              last.res.status = 400

Answered(res) == res.status \in {200, 400, 500}

\* C19: a verification is answered in the step that takes it; a create-order
\* request is answered in the step that takes it or is suspended at the
\* gateway call with no answer yet; a suspended request stays as it is until
\* its call returns or fails, and the step in which it leaves is the one
\* that answers it, one request at a time, after which it is no longer
\* there to be answered again; and, every gateway call returning or failing
\* in the end, every suspended request is answered in the end.
C19_EveryRequestAnsweredOnce ==
    /\ [](last.op \in {"verify", "list"} => Answered(last.res))
    /\ [](last.op = "create" =>
            \/ Answered(last.res)
            \/ /\ last.res = NoResponse
               /\ \E socket \in DOMAIN pending :
                     /\ pending[socket].req = last.req
                     /\ pending[socket].options = last.sent)
    /\ [][/\ Cardinality(DOMAIN pending \ DOMAIN pending') <= 1
          /\ \A socket \in DOMAIN pending :
                IF socket \in DOMAIN pending'
                THEN pending'[socket] = pending[socket]
                ELSE /\ last'.op = "create"
                     /\ last'.req = pending[socket].req
                     /\ last'.res.status \in {200, 500}
          /\ \A socket \in DOMAIN pending' \ DOMAIN pending :
                /\ last'.res = NoResponse
                /\ pending'[socket].req = last'.req
                /\ DOMAIN pending \subseteq DOMAIN pending']_vars
    /\ \A socket \in 1..MaxInflight :
          (socket \in DOMAIN pending) ~> (socket \notin DOMAIN pending)

\* The request suspended on the first connection has been answered with the
\* failure of its gateway call while the one on the second is still waiting.
C19_Witness ==
    /\ last.op = "create"
    /\ last.sent # NoOptions
    /\ last.res.status = 500
    /\ DOMAIN pending = {2}

\* A create-order request that has reached the gateway call.
SentToGateway == last.op = "create" /\ last.sent # NoOptions

\* C20: a receipt of the request longer than 40 characters does not get the
\* request rejected and is replaced, so that the receipt passed to the
\* gateway, and stored when the call succeeds, has at most 40 characters; a
\* receipt of 1 to 40 characters is passed on and stored as it came.
C20_LongReceiptReplaced ==
    /\ ( /\ Creating
         /\ last.req.amount = Whole(50)
         /\ last.req.receipt.t = "string" ) => last.res.status # 400
    /\ SentToGateway =>
          /\ Len(last.sent.receipt.s) <= MaxReceiptLength
          /\ ( /\ last.req.receipt.t = "string"
               /\ Len(last.req.receipt.s) \in 1..MaxReceiptLength ) =>
                   last.sent.receipt = last.req.receipt
          /\ last.res.status = 200 => CreatedEntry.receipt = last.sent.receipt

----------------------------------------------------------------------------
(* Properties of the queries *)

\* C21: fetching an order by id answers with the entry stored under that id
\* when there is one and with not found when there is none; listing the
\* orders answers with one item per entry of the store, each the entry with
\* its id, and with their number as the count; neither changes the store.
C21_QueriesReadTheStore ==
    /\ last.op = "fetch" =>
          LET id == last.req.order_id.s
          IN  /\ ordersStore = prevStore
              /\ IF id \in DOMAIN ordersStore
                 THEN /\ last.res.status = 200
                      /\ last.res.order.id = Str(id)
                      /\ last.res.order.amount = ordersStore[id].amount
                      /\ last.res.order.currency = ordersStore[id].currency
                      /\ last.res.order.receipt = ordersStore[id].receipt
                 ELSE last.res.status = 404
    /\ last.op = "list" =>
          /\ ordersStore = prevStore
          /\ last.res.status = 200
          /\ last.res.count = Whole(Cardinality(DOMAIN ordersStore))
          /\ Cardinality(last.res.orders) = Cardinality(DOMAIN ordersStore)
          /\ \A id \in DOMAIN ordersStore :
                \E item \in last.res.orders :
                    /\ item.id = Str(id)
                    /\ item.status = ordersStore[id].status
                    /\ item.amount = ordersStore[id].amount
                    /\ item.payment_id = ordersStore[id].payment_id

\* The part of C21 that is about the listing alone.
C21_ListingPart ==
    last.op = "fetch" \/ C21_QueriesReadTheStore

----------------------------------------------------------------------------
(* Properties of the handlers taken together *)

\* C22: in every state between two handler steps, the states a handler can
\* find the store in, a stored order has a payment id exactly when its
\* status is not created and has a verified_at only when its status is
\* verified; the three fields a verification writes are never found partly
\* written.
C22_VerificationFieldsTogether ==
    \A id \in DOMAIN ordersStore :
        /\ (ordersStore[id].payment_id # Undefined) <=>
              (ordersStore[id].status # "created")
        /\ (ordersStore[id].verified_at # Undefined) =>
              (ordersStore[id].status = "verified")

\* A verification has just marked the first order, with a create-order
\* request suspended at the gateway and a second order not yet verified.
C22_Witness ==
    /\ last.op = "verify"
    /\ last.res.status = 200
    /\ DOMAIN pending # {}
    /\ DOMAIN ordersStore = {GatewayOrderId(1), GatewayOrderId(2)}
    /\ prevStore[GatewayOrderId(1)].status = "created"
    /\ ordersStore[GatewayOrderId(1)].status = "verified"
    /\ ordersStore[GatewayOrderId(1)].payment_id = last.req.payment_id
    /\ ordersStore[GatewayOrderId(1)].verified_at # Undefined
    /\ ordersStore[GatewayOrderId(2)].payment_id = Undefined

\* The receipt stored for a request: its own, or a generated one.
OwnReceipt(receipt, req) ==
    IF Omitted(req.receipt)
    THEN receipt.t = "string" /\ SubSeq(receipt.s, 1, 4) = <<"r", "e", "c", "_">>
    ELSE receipt = req.receipt

\* C23: with several create-order requests suspended at the gateway and their
\* calls returning in any order, a request whose call succeeds gets a new
\* entry of its own under the id returned to it, holding the amount (in
\* paise), the currency and the receipt of that request and of no other,
\* and every entry stored before is still there as it was; a verification or
\* a query handled meanwhile leaves the suspended requests as they are.
C23_InterleavedCreatesKeepOwnData ==
    /\ [](Created =>
            LET id == last.res.order.id.s
            IN  /\ id \notin DOMAIN prevStore
                /\ id \in DOMAIN ordersStore
                /\ \A k \in DOMAIN prevStore :
                      k \in DOMAIN ordersStore /\ ordersStore[k] = prevStore[k]
                /\ NearestPaise(ordersStore[id].amount, last.req.amount)
                /\ ordersStore[id].currency =
                      (IF Omitted(last.req.currency) THEN Str(Chars_INR)
                       ELSE last.req.currency)
                /\ OwnReceipt(ordersStore[id].receipt, last.req))
    /\ [][last'.op \in {"verify", "list", "fetch"} => pending' = pending]_vars

\* The request that came second was answered first: its order holds its
\* data while the request that came first is still suspended.
C23_Witness ==
    /\ Created
    /\ last.req = FullCreateBody
    /\ DOMAIN pending = {1}
    /\ pending[1].req = PlainCreateBody
    /\ last.res.order.id = Str(GatewayOrderId(1))
    /\ ordersStore[GatewayOrderId(1)].currency = Str(<<"U", "S", "D">>)
    /\ ordersStore[GatewayOrderId(1)].receipt = Str(<<"r", "1">>)
    /\ ordersStore[GatewayOrderId(1)].amount = Whole(100)

\* C24: a create-order request calls the gateway not at all when it is
\* rejected for its amount or for the missing configuration, and once
\* otherwise; while it is suspended it has made that one call and makes no
\* other, and the step that answers it after the call has returned or
\* failed takes it out of the suspended requests, so a failure is not
\* followed by another call.
C24_GatewayCalledAtMostOnce ==
    /\ [](\A socket \in DOMAIN pending : pending[socket].calls = 1)
    /\ [](last.op = "create" =>
            /\ (CredentialsMissing \/ last.res.status = 400) =>
                  (last.sent = NoOptions /\ Answered(last.res))
            /\ (~CredentialsMissing /\ last.res.status # 400) =>
                  last.sent # NoOptions)
    /\ [][/\ \A socket \in DOMAIN pending \cap DOMAIN pending' :
                pending'[socket] = pending[socket]
          /\ (last'.op = "create" /\ last'.sent # NoOptions /\ Answered(last'.res)) =>
                \E socket \in DOMAIN pending :
                    /\ pending[socket].req = last'.req
                    /\ DOMAIN pending' = DOMAIN pending \ {socket}]_vars

\* The gateway call of a request has failed and the request has been
\* answered: nothing is suspended and the gateway has made no order.
C24_Witness ==
    /\ GatewayFailed
    /\ last.req = FullCreateBody
    /\ pending = NoneSuspended
    /\ minted = 0

SomeBlank(req) ==
    Blank(req.order_id) \/ Blank(req.payment_id) \/ Blank(req.signature)

\* C25: the verification tests its parameters before the secret and the
\* secret before the signature and the store: on a server without the
\* secret a request with a parameter missing or blank is answered with the
\* client error naming that parameter, not with the configuration error; a
\* request with its parameters present is answered there with the
\* configuration error, no HMAC having been computed and the store left as
\* it was; and an HMAC is computed only for a request with its parameters
\* present on a server with the secret.
C25_ChecksInOrder ==
    last.op = "verify" =>
        /\ (StringsOrMissing(last.req) /\ SomeBlank(last.req) /\ ~SecretConfigured) =>
              /\ last.res.status = 400
              /\ last.res.message = RequiredMessage(last.req)
        /\ (AllPresent(last.req) /\ ~SecretConfigured) =>
              /\ last.res.status = 500
              /\ ~last.hmac
              /\ ordersStore = prevStore
        /\ last.hmac => (AllPresent(last.req) /\ SecretConfigured)

C25_Witness ==
    /\ last.op = "verify"
    /\ RAZORPAY_KEY_SECRET = Undefined
    /\ Present(last.req.order_id)
    /\ Blank(last.req.payment_id)
    /\ Present(last.req.signature)
    /\ last.res.status = 400
    /\ last.res.message = "Payment ID is required"

\* The stored orders that have a payment id.
Paid == {id \in DOMAIN ordersStore : ordersStore[id].payment_id # Undefined}

\* C27 as stated: once a stored order has a payment id, no step changes it,
\* also not a verification of the same order with another payment id and
\* the signature of that pair.
C27_PaymentIdNeverChanges ==
    [][\A id \in Paid :
          /\ id \in DOMAIN ordersStore'
          /\ ordersStore'[id].payment_id = ordersStore[id].payment_id]_vars

\* C27 as amended: once a stored order has a payment id, the only step that
\* changes it is a verification of that order that succeeds, and after any
\* such verification the order has the payment id of that request: the
\* payment id is that of the latest successful verification.
C27_PaymentIdOfLatestVerification ==
    /\ [](VerifiedKnownOrder =>
            ordersStore[last.req.order_id.s].payment_id = last.req.payment_id)
    /\ [][\A id \in Paid :
            /\ id \in DOMAIN ordersStore'
            /\ \/ ordersStore'[id].payment_id = ordersStore[id].payment_id
               \/ /\ last'.op = "verify"
                  /\ last'.res.status = 200
                  /\ last'.req.order_id = Str(id)
                  /\ ordersStore'[id].payment_id = last'.req.payment_id]_vars

\* An order verified with one payment has been verified with another.
C27_Witness ==
    /\ VerifiedKnownOrder
    /\ prevStore[last.req.order_id.s].payment_id = Str(<<"p", "1">>)
    /\ ordersStore[last.req.order_id.s].payment_id = Str(<<"p", "2">>)
    /\ last.req.payment_id = Str(<<"p", "2">>)

\* C28: when a create-order request is answered with a success, the store
\* holds an entry under the order id of the answer, and no step takes a key
\* out of the store; so in every state the store holds an entry for every
\* order id a success has carried, and a verification of such an order that
\* comes after the answer finds the entry: with the right signature it
\* leaves it verified.
C28_StoredBeforeAnswered ==
    /\ [](Created =>
            /\ last.res.order.id.t = "string"
            /\ last.res.order.id.s \in DOMAIN ordersStore)
    /\ [][DOMAIN ordersStore \subseteq DOMAIN ordersStore']_vars
    /\ [](ReturnedIds \subseteq DOMAIN ordersStore)
    /\ []((Verifying /\ last.req.order_id.s \in ReturnedIds
              /\ last.req.signature = ExpectedSignature(last.req)) =>
            /\ last.req.order_id.s \in DOMAIN prevStore
            /\ ordersStore[last.req.order_id.s].status = "verified")

\* The first request made has been answered and its order verified at once.
C28_Witness ==
    /\ last.op = "verify"
    /\ last.res.status = 200
    /\ minted = 1
    /\ pending = NoneSuspended
    /\ last.req.order_id.s \in ReturnedIds
    /\ prevStore[last.req.order_id.s].status = "created"
    /\ ordersStore[last.req.order_id.s].status = "verified"

----------------------------------------------------------------------------
(* Properties of the signed message, checked under PairSpec *)

HasBar(chars) == \E i \in 1..Len(chars) : chars[i] = "|"

\* The pairs of ids other than the pair of the request.
OtherPairs(req, orderIds) ==
    {pair \in orderIds \X PairPaymentIds :
        pair # <<req.order_id.s, req.payment_id.s>>}

\* A request carrying the signature of one of the other pairs was not
\* accepted, and none of them has the signed message of an accepted request.
BoundToItsPair(req, others) ==
    \A pair \in others :
        /\ req.signature = Str(GatewaySignature(RAZORPAY_KEY_SECRET.s, pair[1], pair[2]))
              => last.res.status = 400
        /\ last.res.status = 200 =>
              SignedBody(Str(pair[1]), Str(pair[2])) #
                SignedBody(req.order_id, req.payment_id)

\* C26 as stated: whatever the ids, also ids with the separator in them, a
\* different pair of ids has a different signed message, and the signature
\* of one pair is not accepted for another.
C26_SignatureBoundToPair ==
    Verifying => BoundToItsPair(last.req, OtherPairs(last.req, PairOrderIds))

\* C26 as amended: among pairs whose order ids have no separator in them
\* (the payment ids may), a different pair has a different signed message,
\* and the signature of one pair is not accepted for another.
C26_SignatureBoundToPairWithoutBar ==
    (Verifying /\ ~HasBar(last.req.order_id.s)) =>
        BoundToItsPair(last.req,
                       OtherPairs(last.req, {o \in PairOrderIds : ~HasBar(o)}))

\* The signature of (a, bc) was submitted for (ab, c) and rejected.
C26_Witness ==
    /\ Verifying
    /\ last.req.order_id = Str(<<"a", "b">>)
    /\ last.req.payment_id = Str(<<"c">>)
    /\ last.req.signature = Str(GatewaySignature(ServerKey, <<"a">>, <<"b", "c">>))
    /\ last.res.status = 400
    /\ last.req.order_id.s \notin DOMAIN ordersStore
    /\ DOMAIN ordersStore # {}

====
